---- MODULE Spec2Model ----
(***************************************************************************)
(* Model of the motion comparison engine of cbc-hack:                      *)
(*   services/comparison_service.py  (ComparisonService)                   *)
(*   services/feedback_service.py    (FeedbackService)                     *)
(*                                                                         *)
(* Numbers.  The program computes with binary floats.  The model uses      *)
(* fixed point: every metric (distance, similarity, velocity, smoothness,  *)
(* timestamp) is an integer number of hundredths, One = 1.0, and every     *)
(* division or square root is rounded down.  Landmark coordinates are      *)
(* integer tenths of the normalised image size (5 is 0.5).  A float NaN    *)
(* is modelled explicitly (record field nan), because Python's max and     *)
(* comparisons treat it specially.                                         *)
(***************************************************************************)
EXTENDS Integers, Sequences, FiniteSets, TLC

VARIABLES
    mode,                 \* which entry point was called: "compare", "align", "encode"
    pc,                   \* position inside the call
    similarity_threshold, \* ComparisonService.similarity_threshold (the only field)
    memo,                 \* result of the first _dtw_align call, kept by the observer
    example_poses,        \* example_pose_data['poses'] (frames, or NoneFrame)
    assignment_poses,     \* assignment_pose_data['poses']
    example_clean,        \* example_poses_clean
    assignment_clean,     \* assignment_poses_clean
    example_features,     \* example_features
    assignment_features,  \* assignment_features
    dist_matrix,          \* dist_matrix (n x m)
    dtw_matrix,           \* dtw_matrix ((n+1) x (m+1))
    bt,                   \* backtrack loop variables i, j and the path so far
    alignment,            \* the dict returned by _dtw_align
    similarities,         \* the dict returned by _calculate_similarities
    movement_analysis,    \* the dict returned by _analyze_movement_quality
    feedback_points,      \* the list returned by _generate_feedback_points
    result,               \* the dict returned by compare_videos
    done,                 \* the steps of compare_videos performed so far
    exc,                  \* the exception propagating out of the call, or "none"
    ai_feedback           \* what generate_enhanced_feedback returned

vars == << mode, pc, similarity_threshold, memo, example_poses,
           assignment_poses, example_clean, assignment_clean, example_features,
           assignment_features, dist_matrix, dtw_matrix, bt, alignment,
           similarities, movement_analysis, feedback_points, result, done, exc,
           ai_feedback >>

----------------------------------------------------------------------------
(* Bounds of the model                                                     *)

\* longest example sequence (frames, absent ones included) given to compare_videos
MaxLenA == 2
\* longest assignment sequence given to compare_videos
MaxLenB == 4
\* longest feature sequence given directly to _dtw_align
MaxDtwLen == 3
\* longest sequence behind the alignment given directly to _generate_feedback_points
MaxFeedbackLen == 2
\* longest feature sequence given directly to _calculate_similarities
MaxScoreLen == 2

----------------------------------------------------------------------------
(* Program constants                                                       *)

\* 1.0 in hundredths
One == 100
\* np.inf in dtw_matrix: larger than any cumulative cost of the model
Inf == 1000000
\* features.append(np.zeros(66)); while len(feature_vector) < 66; feature_vector[:66]
FeatureLen == 66
\* self.similarity_threshold = 0.7
SimilarityThreshold == 70
\* normalized_distance = distance / (max_len * 10)
DistanceScale == 10
\* similarity = max(0, 1 - (avg_diff / 2))
AngleDiffScale == 2
\* smoothness = max(0, 1 - avg_jerk * 10)
JerkScale == 10
\* if len(velocities) < 2: return 0.5  /  if len(jerks) == 0: return 0.5
DefaultSmoothness == 50
\* 'is_too_stiff': assignment_smoothness < 0.5
StiffThreshold == 50
\* 'is_too_fast': mean(assignment) > mean(example) * 1.3
FastFactor == 130
\* 'is_too_slow': mean(assignment) < mean(example) * 0.7
SlowFactor == 70
\* if score < 0.6
ProblemThreshold == 60
\* 'high' if avg_score < 0.4 else 'medium'
HighSeverityThreshold == 40
\* weights of _calculate_overall_score
WeightPose == 40
WeightTiming == 25
WeightAngle == 20
WeightSmoothness == 15
\* the except branch of _dtw_align: 'normalized_distance': 0.5, 'alignment_quality': 0.5
FallbackNormalizedDistance == 50
FallbackQuality == 50
\* fallback bands of _generate_fallback_feedback, in tenths of a percent
ExcellentBand == 800
GoodBand == 650

----------------------------------------------------------------------------
(* Arithmetic helpers                                                      *)

Max(a, b) == IF b > a THEN b ELSE a
Min(a, b) == IF b < a THEN b ELSE a
Abs(a) == IF a < 0 THEN 0 - a ELSE a

RECURSIVE SqrtSearch(_, _, _)
SqrtSearch(n, lo, hi) ==
    IF lo >= hi THEN lo
    ELSE LET mid == (lo + hi + 1) \div 2
         IN  IF mid * mid <= n THEN SqrtSearch(n, mid, hi)
                               ELSE SqrtSearch(n, lo, mid - 1)

\* floor of the square root
ISqrt(n) == SqrtSearch(n, 0, Min(n, 46340))

RECURSIVE SumSeq(_)
SumSeq(s) == IF s = << >> THEN 0 ELSE Head(s) + SumSeq(Tail(s))

\* a float that may be NaN
Num(v) == [nan |-> FALSE, v |-> v]
NaN == [nan |-> TRUE, v |-> 0]

\* np.mean: NaN (with a warning) on an empty list
NpMean(s) == IF Len(s) = 0 THEN NaN ELSE Num(SumSeq(s) \div Len(s))

\* Python's max(0, x): x only replaces 0 when x > 0, which is false for NaN
PyMax0(x) == IF x.nan THEN 0 ELSE IF x.v > 0 THEN x.v ELSE 0

\* round(): n / unit rounded to the nearest integer, ties to even (Python 3)
RoundHalfEven(n, unit) ==
    LET q == n \div unit
        r == n % unit
    IN  IF 2 * r < unit THEN q
        ELSE IF 2 * r > unit THEN q + 1
        ELSE IF q % 2 = 0 THEN q ELSE q + 1

Reverse(s) == [k \in 1..Len(s) |-> s[Len(s) + 1 - k]]

----------------------------------------------------------------------------
(* Frame poses                                                             *)

\* every key the model's poses use, in the order sorted() puts them
\* (code point order of the strings); the landmark names are MediaPipe's
KeyOrder == << "angles", "frame_id", "left_ankle", "left_wrist", "nose",
               "right_ankle", "right_wrist", "zone" >>

\* the fixed vocabulary of landmark names (the part of it the model uses)
LandmarkNames == { "left_ankle", "left_wrist", "nose", "right_ankle", "right_wrist" }

\* a landmark {'x': .., 'y': ..}; z and visibility are never read
Landmark(x, y) == [kind |-> "point", x |-> x, y |-> y]
\* the 'angles' sub-map, never read by the comparison
Angles == [kind |-> "angles", x |-> 0, y |-> 0]
\* a mapping that has no 'x' entry: landmark['x'] raises KeyError
OtherMapping == [kind |-> "other", x |-> 0, y |-> 0]

\* the marker of a frame where no pose was detected (None)
NoneFrame == [absent |-> TRUE, pose |-> [k \in {"angles"} |-> Angles]]
Present(p) == [absent |-> FALSE, pose |-> p]

\* a pose with no landmark in focus: only the 'angles' entry
PoseNoLandmarks == Present([k \in {"angles"} |-> Angles])
PoseA == Present([k \in {"angles", "left_wrist"} |->
                    IF k = "angles" THEN Angles ELSE Landmark(5, 0)])
PoseB == Present([k \in {"angles", "left_wrist"} |->
                    IF k = "angles" THEN Angles ELSE Landmark(2, 4)])

----------------------------------------------------------------------------
(* _poses_to_features                                                      *)

\* sorted(pose.keys())
SortedKeys(pose) == SelectSeq(KeyOrder, LAMBDA k : k \in DOMAIN pose)

\* the loop over sorted(pose.keys()): every key but 'angles' contributes
\* landmark['x'], landmark['y']; a value without 'x' raises
RECURSIVE ExtendVector(_, _, _)
ExtendVector(pose, keys, acc) ==
    IF keys = << >> THEN [raised |-> FALSE, vec |-> acc]
    ELSE IF Head(keys) = "angles" THEN ExtendVector(pose, Tail(keys), acc)
    ELSE IF pose[Head(keys)].kind # "point" THEN [raised |-> TRUE, vec |-> acc]
    ELSE ExtendVector(pose, Tail(keys),
                      acc \o << pose[Head(keys)].x, pose[Head(keys)].y >>)

\* while len(feature_vector) < 66: feature_vector.append(0)
PadVector(v) == v \o [k \in 1..(FeatureLen - Len(v)) |-> 0]

\* feature_vector[:66]
TruncateVector(v) == SubSeq(v, 1, Min(Len(v), FeatureLen))

ZeroVector == [k \in 1..FeatureLen |-> 0]

\* one iteration of the loop over poses
EncodePose(frame) ==
    IF frame.absent THEN [raised |-> FALSE, vec |-> ZeroVector]
    ELSE LET r == ExtendVector(frame.pose, SortedKeys(frame.pose), << >>)
         IN  IF r.raised THEN r
             ELSE [raised |-> FALSE, vec |-> TruncateVector(PadVector(r.vec))]

\* _poses_to_features(poses): the list of vectors, or the exception
PosesToFeatures(poses) ==
    LET enc == [k \in 1..Len(poses) |-> EncodePose(poses[k])]
    IN  [raised |-> \E k \in 1..Len(poses) : enc[k].raised,
         features |-> [k \in 1..Len(poses) |-> enc[k].vec]]

----------------------------------------------------------------------------
(* scipy.spatial.distance                                                  *)

\* the sum of the entries of a vector; zero entries add nothing and are skipped
RECURSIVE SumAt(_, _)
SumAt(t, S) ==
    IF S = {} THEN 0
    ELSE LET k == CHOOSE x \in S : TRUE
         IN  t[k] + SumAt(t, S \ {k})

SumVector(t) == SumAt(t, { k \in 1..Len(t) : t[k] # 0 })

\* np.dot(u, v)
Dot(u, v) == SumVector([k \in 1..Len(u) |-> u[k] * v[k]])

\* the squared distance under euclidean(u, v)
SqDist(u, v) == SumVector([k \in 1..Len(u) |-> (u[k] - v[k]) * (u[k] - v[k])])

\* euclidean(u, v) in hundredths: coordinates are tenths, so the distance is
\* sqrt(sum)/10 = sqrt(sum * 100)/100
Euclidean(u, v) == ISqrt(SqDist(u, v) * One)

\* 1 - cosine(u, v) in hundredths: uv / sqrt(uu * vv), NaN when a vector is
\* zero (0/0); coordinates are never negative, so neither is uv
CosineSimilarity(u, v) ==
    LET uv == Dot(u, v)
        uu == Dot(u, u)
        vv == Dot(v, v)
    IN  IF uu * vv = 0 THEN NaN
        ELSE Num(ISqrt(((uv * One) * (uv * One)) \div (uu * vv)))

----------------------------------------------------------------------------
(* _dtw_align                                                              *)

\* dist_matrix[i, j] = euclidean(example_features[i], assignment_features[j])
DistMatrix(a, b) ==
    [i \in 1..Len(a) |-> [j \in 1..Len(b) |-> Euclidean(a[i], b[j])]]

\* dtw_matrix is kept as rows 0..n of columns 0..m
At(M, i, j) == M[i + 1][j + 1]

\* cost + x, where x may be np.inf
AddCost(cost, x) == IF x >= Inf THEN Inf ELSE cost + x

Min3(a, b, c) == Min(Min(a, b), c)

\* DtwCell without the diagonal (match) neighbour
DtwCellNoMatch(cost, up, left, diag) == AddCost(cost, Min(up, left))

\* dtw_matrix[i, j] = cost + min(dtw_matrix[i-1, j], dtw_matrix[i, j-1], dtw_matrix[i-1, j-1])
DtwCell(cost, up, left, diag) == AddCost(cost, Min3(up, left, diag))

\* FirstRow without "dtw_matrix[0, :] = np.inf": the border row stays zero
FirstRowZero(m) == [j \in 1..(m + 1) |-> 0]

\* dtw_matrix[0, :] = np.inf; dtw_matrix[0, 0] = 0
FirstRow(m) == [j \in 1..(m + 1) |-> IF j = 1 THEN 0 ELSE Inf]

\* the inner loop over j for one i; row holds the columns 0..Len(row)-1
RECURSIVE FillRow(_, _, _)
FillRow(drow, prev, row) ==
    LET j == Len(row)
    IN  IF j > Len(drow) THEN row
        ELSE FillRow(drow, prev,
                     Append(row, DtwCell(drow[j], prev[j + 1], row[j], prev[j])))

\* the outer loop over i; M holds the rows 0..Len(M)-1; column 0 is np.inf
RECURSIVE FillRows(_, _)
FillRows(dist, M) ==
    LET i == Len(M)
    IN  IF i > Len(dist) THEN M
        ELSE FillRows(dist, Append(M, FillRow(dist[i], M[i], << Inf >>)))

DtwMatrix(dist, m) == FillRows(dist, << FirstRow(m) >>)

\* candidates = [up, left, diagonal]
Candidates(M, i, j) ==
    << [cost |-> At(M, i - 1, j),     i |-> i - 1, j |-> j],
       [cost |-> At(M, i, j - 1),     i |-> i,     j |-> j - 1],
       [cost |-> At(M, i - 1, j - 1), i |-> i - 1, j |-> j - 1] >>

\* min(candidates, key=lambda x: x[0]): the first element of least key
RECURSIVE MinByCostFrom(_, _, _)
MinByCostFrom(cands, k, best) ==
    IF k > Len(cands) THEN best
    ELSE MinByCostFrom(cands, k + 1,
                       IF cands[k].cost < best.cost THEN cands[k] ELSE best)

\* MinByCost taking the last element of least key instead of the first
RECURSIVE MinByCostLastFrom(_, _, _)
MinByCostLastFrom(cands, k, best) ==
    IF k > Len(cands) THEN best
    ELSE MinByCostLastFrom(cands, k + 1,
                           IF cands[k].cost <= best.cost THEN cands[k] ELSE best)

MinByCostLast(cands) == MinByCostLastFrom(cands, 2, cands[1])

\* MinByCost always taking the diagonal candidate
MinByCostDiagonal(cands) == cands[3]

MinByCost(cands) == MinByCostFrom(cands, 2, cands[1])

\* the dict returned on the DTW branch
DtwResult(distance, path, n, m) ==
    LET max_len == Max(n, m)
        normalized_distance == distance \div (max_len * DistanceScale)
    IN  [distance            |-> distance,
         normalized_distance |-> Min(normalized_distance, One),
         path                |-> path,
         alignment_quality   |-> Max(0, One - normalized_distance)]

NoAlignment ==
    [distance |-> 0, normalized_distance |-> 0, path |-> << >>, alignment_quality |-> 0]

NoMemo == [set |-> FALSE, example |-> << >>, assignment |-> << >>,
           path |-> << >>, distance |-> 0]

\* lines 129-156: both matrices, and the start of the backtrack
DtwStart ==
    /\ pc = "dtw"
    /\ LET dist == DistMatrix(example_features, assignment_features)
           M == DtwMatrix(dist, Len(assignment_features))
       IN  /\ dist_matrix' = dist
           /\ dtw_matrix' = M
    /\ bt' = [i |-> Len(example_features), j |-> Len(assignment_features), path |-> << >>]
    /\ pc' = "backtrack"
    /\ UNCHANGED << mode, similarity_threshold, memo, example_poses,
                    assignment_poses, example_clean, assignment_clean,
                    example_features, assignment_features, alignment,
                    similarities, movement_analysis, feedback_points, result,
                    done, exc, ai_feedback >>

\* one iteration of: while i > 0 and j > 0
BacktrackStep ==
    /\ pc = "backtrack"
    /\ bt.i > 0 /\ bt.j > 0
    /\ LET next == MinByCost(Candidates(dtw_matrix, bt.i, bt.j))
       IN  bt' = [i |-> next.i, j |-> next.j,
                  path |-> Append(bt.path, << bt.i - 1, bt.j - 1 >>)]
    /\ UNCHANGED << mode, pc, similarity_threshold, memo, example_poses,
                    assignment_poses, example_clean, assignment_clean,
                    example_features, assignment_features, dist_matrix,
                    dtw_matrix, alignment, similarities, movement_analysis,
                    feedback_points, result, done, exc, ai_feedback >>

\* the loop has ended: path.reverse(), normalise, return
DtwReturn ==
    /\ pc = "backtrack"
    /\ ~(bt.i > 0 /\ bt.j > 0)
    /\ LET n == Len(example_features)
           m == Len(assignment_features)
           r == DtwResult(At(dtw_matrix, n, m), Reverse(bt.path), n, m)
       IN  /\ alignment' = r
           /\ memo' = IF mode = "align" /\ ~memo.set
                       THEN [set |-> TRUE, example |-> example_features,
                             assignment |-> assignment_features,
                             path |-> r.path, distance |-> r.distance]
                       ELSE memo
    /\ pc' = IF mode = "compare" THEN "similarities" ELSE "aligned"
    /\ done' = done \cup {"alignment"}
    /\ UNCHANGED << mode, similarity_threshold, example_poses,
                    assignment_poses, example_clean, assignment_clean,
                    example_features, assignment_features, dist_matrix,
                    dtw_matrix, bt, similarities, movement_analysis,
                    feedback_points, result, exc, ai_feedback >>

\* FallbackPath with round() in place of int()
FallbackPathRounded(n, m) ==
    [k \in 1..n |-> << k - 1, RoundHalfEven((k - 1) * m, n) >>]

\* FallbackPath with n and m exchanged in the quotient
FallbackPathSwapped(n, m) == [k \in 1..n |-> << k - 1, ((k - 1) * n) \div m >>]

\* path = [(i, int(i * m / n)) for i in range(n)]
FallbackPath(n, m) == [k \in 1..n |-> << k - 1, ((k - 1) * m) \div n >>]

\* the dict returned by the except branch
FallbackResult(n, m) ==
    [distance            |-> 0,
     normalized_distance |-> FallbackNormalizedDistance,
     path                |-> FallbackPath(n, m),
     alignment_quality   |-> FallbackQuality]

\* an exception is raised somewhere inside the try (while the matrices are
\* built or during the backtrack); the except branch returns the fallback
DtwFails ==
    /\ pc \in {"dtw", "backtrack"}
    /\ alignment' = FallbackResult(Len(example_features), Len(assignment_features))
    /\ pc' = IF mode = "compare" THEN "similarities" ELSE "aligned"
    /\ done' = done \cup {"alignment", "fallback"}
    /\ UNCHANGED << mode, similarity_threshold, memo, example_poses,
                    assignment_poses, example_clean, assignment_clean,
                    example_features, assignment_features, dist_matrix,
                    dtw_matrix, bt, similarities, movement_analysis,
                    feedback_points, result, exc, ai_feedback >>

\* a further call of _dtw_align on the same service object: the same
\* sequences again, or the two sequences exchanged
AlignAgain ==
    /\ mode = "align" /\ pc = "aligned"
    /\ \E swap \in BOOLEAN :
          /\ example_features' = IF swap THEN assignment_features ELSE example_features
          /\ assignment_features' = IF swap THEN example_features ELSE assignment_features
    /\ pc' = "dtw"
    /\ UNCHANGED << mode, similarity_threshold, memo, example_poses,
                    assignment_poses, example_clean, assignment_clean,
                    dist_matrix, dtw_matrix, bt, alignment, similarities,
                    movement_analysis, feedback_points, result, done, exc,
                    ai_feedback >>

----------------------------------------------------------------------------
(* _calculate_similarities and _calculate_angle_similarity                 *)

\* if ex_idx < len(example_features) and as_idx < len(assignment_features)
\* (path entries are 0-based)
InRange(pair, a, b) == pair[1] < Len(a) /\ pair[2] < Len(b)

\* one entry of frame_scores
FrameScore(pair, a, b) ==
    IF InRange(pair, a, b)
    THEN PyMax0(CosineSimilarity(a[pair[1] + 1], b[pair[2] + 1]))
    ELSE 0

FrameScores(a, b, path) == [k \in 1..Len(path) |-> FrameScore(path[k], a, b)]

\* angle_diffs: one euclidean distance per in-range pair
AngleDiffs(a, b, path) ==
    LET inrange == SelectSeq(path, LAMBDA pair : InRange(pair, a, b))
    IN  [k \in 1..Len(inrange) |->
            Euclidean(a[inrange[k][1] + 1], b[inrange[k][2] + 1])]

\* CalculateAngleSimilarity with the clamp applied to every pair before the mean
CalculateAngleSimilarityPerPair(a, b, path) ==
    LET angle_diffs == AngleDiffs(a, b, path)
    IN  IF Len(angle_diffs) = 0 THEN 0
        ELSE NpMean([k \in 1..Len(angle_diffs) |->
                        Max(0, One - (angle_diffs[k] \div AngleDiffScale))]).v

CalculateAngleSimilarity(a, b, path) ==
    LET angle_diffs == AngleDiffs(a, b, path)
    IN  IF Len(angle_diffs) = 0 THEN 0
        ELSE LET avg_diff == NpMean(angle_diffs).v
             IN  Max(0, One - (avg_diff \div AngleDiffScale))

CalculateSimilarities(a, b, align) ==
    LET frame_scores == FrameScores(a, b, align.path)
    IN  [pose_similarity   |-> NpMean(frame_scores),
         timing_similarity |-> align.alignment_quality,
         angle_similarity  |-> CalculateAngleSimilarity(a, b, align.path),
         frame_scores      |-> frame_scores]

----------------------------------------------------------------------------
(* _analyze_movement_quality                                               *)

\* for key in ['left_wrist', 'right_wrist', 'left_ankle', 'right_ankle']
VelocityKeys == << "left_wrist", "right_wrist", "left_ankle", "right_ankle" >>

\* np.sqrt(dx**2 + dy**2) for one key, in hundredths
Displacement(p, q, key) ==
    LET dx == q[key].x - p[key].x
        dy == q[key].y - p[key].y
    IN  ISqrt((dx * dx + dy * dy) * One)

\* the velocity between two consecutive frames
Velocity(prev, cur) ==
    IF prev.absent \/ cur.absent THEN 0
    ELSE LET keys == SelectSeq(VelocityKeys,
                        LAMBDA k : k \in DOMAIN cur.pose /\ k \in DOMAIN prev.pose)
             terms == [k \in 1..Len(keys) |-> Displacement(prev.pose, cur.pose, keys[k])]
         IN  IF Len(keys) > 0 THEN SumSeq(terms) \div Len(keys) ELSE 0

CalculateVelocities(poses) ==
    [k \in 1..(Len(poses) - 1) |-> Velocity(poses[k], poses[k + 1])]

\* np.diff
Diff(s) == [k \in 1..(Len(s) - 1) |-> s[k + 1] - s[k]]

\* CalculateSmoothness without the clamp max(0, ...)
CalculateSmoothnessUnclamped(poses) ==
    LET velocities == CalculateVelocities(poses)
        jerks == Diff(Diff(velocities))
    IN  IF Len(velocities) < 2 THEN DefaultSmoothness
        ELSE IF Len(jerks) = 0 THEN DefaultSmoothness
        ELSE LET avg_jerk == NpMean([k \in 1..Len(jerks) |-> Abs(jerks[k])]).v
             IN  One - avg_jerk * JerkScale

CalculateSmoothness(poses) ==
    LET velocities == CalculateVelocities(poses)
        jerks == Diff(Diff(velocities))
    IN  IF Len(velocities) < 2 THEN DefaultSmoothness
        ELSE IF Len(jerks) = 0 THEN DefaultSmoothness
        ELSE LET avg_jerk == NpMean([k \in 1..Len(jerks) |-> Abs(jerks[k])]).v
             IN  Max(0, One - avg_jerk * JerkScale)

CompareVelocities(vel1, vel2) ==
    IF Len(vel1) = 0 \/ Len(vel2) = 0 THEN 0
    ELSE LET avg_vel1 == NpMean(vel1).v
             avg_vel2 == NpMean(vel2).v
         IN  IF avg_vel1 = 0 THEN 0
             ELSE (Min(avg_vel2, avg_vel1) * One) \div Max(avg_vel2, avg_vel1)

\* GreaterThanScaled with "<" in place of ">"
GreaterThanScaledFlipped(a, b, factor) == ~a.nan /\ ~b.nan /\ a.v * One < b.v * factor

\* a > b * factor on floats: false when either side is NaN
GreaterThanScaled(a, b, factor) == ~a.nan /\ ~b.nan /\ a.v * One > b.v * factor
LessThanScaled(a, b, factor) == ~a.nan /\ ~b.nan /\ a.v * One < b.v * factor

AnalyzeMovementQuality(example, assignment) ==
    LET example_velocities == CalculateVelocities(example)
        assignment_velocities == CalculateVelocities(assignment)
        example_smoothness == CalculateSmoothness(example)
        assignment_smoothness == CalculateSmoothness(assignment)
    IN  [example_velocities    |-> example_velocities,
         assignment_velocities |-> assignment_velocities,
         velocity_similarity   |-> CompareVelocities(example_velocities,
                                                     assignment_velocities),
         example_smoothness    |-> example_smoothness,
         assignment_smoothness |-> assignment_smoothness,
         smoothness_score      |-> One - Abs(example_smoothness - assignment_smoothness),
         is_too_stiff          |-> assignment_smoothness < StiffThreshold,
         is_too_fast           |-> GreaterThanScaled(NpMean(assignment_velocities),
                                                     NpMean(example_velocities), FastFactor),
         is_too_slow           |-> LessThanScaled(NpMean(assignment_velocities),
                                                  NpMean(example_velocities), SlowFactor)]

NoMovement ==
    [example_velocities |-> << >>, assignment_velocities |-> << >>,
     velocity_similarity |-> 0, example_smoothness |-> 0,
     assignment_smoothness |-> 0, smoothness_score |-> 0,
     is_too_stiff |-> FALSE, is_too_fast |-> FALSE, is_too_slow |-> FALSE]

----------------------------------------------------------------------------
(* _generate_feedback_points                                               *)

\* _format_time: MM:SS as the pair (minutes, secs); seconds are hundredths here
FormatTime(seconds) ==
    LET whole == seconds \div One
    IN  << whole \div 60, whole % 60 >>

\* f"{start} - {end}", or 'Overall'
SegmentStamp(start, end) ==
    [overall |-> FALSE, start |-> FormatTime(start), end |-> FormatTime(end)]
OverallStamp == [overall |-> TRUE, start |-> << 0, 0 >>, end |-> << 0, 0 >>]

NoSegment == [open |-> FALSE, start |-> 0, end |-> 0, scores |-> << >>]

\* example_timestamps[ex_idx] if ex_idx < len(example_timestamps) else 0
TimestampAt(example_timestamps, ex_idx) ==
    IF ex_idx < Len(example_timestamps) THEN example_timestamps[ex_idx + 1] ELSE 0

\* IsProblem with "<=" in place of "<"
IsProblemInclusive(score) == score <= ProblemThreshold

\* if score < 0.6
IsProblem(score) == score < ProblemThreshold

\* the loop over enumerate(frame_scores), from index i (1-based) on, and the
\* closing "if current_segment is not None"
RECURSIVE ProblemSegments(_, _, _, _, _, _)
ProblemSegments(frame_scores, path, example_timestamps, i, segments, current) ==
    IF i > Len(frame_scores)
    THEN IF current.open THEN Append(segments, current) ELSE segments
    ELSE LET score == frame_scores[i]
         IN  IF IsProblem(score)
             THEN IF i - 1 < Len(path)
                  THEN LET timestamp == TimestampAt(example_timestamps, path[i][1])
                       IN  ProblemSegments(frame_scores, path, example_timestamps, i + 1,
                               segments,
                               IF ~current.open
                               THEN [open |-> TRUE, start |-> timestamp,
                                     end |-> timestamp, scores |-> << score >>]
                               ELSE [current EXCEPT !.end = timestamp,
                                                    !.scores = Append(@, score)])
                  ELSE ProblemSegments(frame_scores, path, example_timestamps, i + 1,
                                       segments, current)
             ELSE ProblemSegments(frame_scores, path, example_timestamps, i + 1,
                      IF current.open THEN Append(segments, current) ELSE segments,
                      NoSegment)

\* the item of one problem segment
SegmentItem(segment) ==
    LET avg_score == NpMean(segment.scores).v
    IN  [timestamp  |-> SegmentStamp(segment.start, segment.end),
         issue      |-> "Pose mismatch",
         severity   |-> IF avg_score < HighSeverityThreshold THEN "high" ELSE "medium",
         suggestion |-> [text |-> "Review your positioning during this segment",
                         pct |-> avg_score]]

TooFastItem(movement) ==
    [timestamp  |-> OverallStamp,
     issue      |-> "Movement speed too fast",
     severity   |-> "medium",
     suggestion |-> [text |-> "Slow down your movements",
                     pct |-> One - movement.velocity_similarity]]

TooSlowItem(movement) ==
    [timestamp  |-> OverallStamp,
     issue      |-> "Movement speed too slow",
     severity   |-> "medium",
     suggestion |-> [text |-> "Speed up your movements",
                     pct |-> One - movement.velocity_similarity]]

StiffItem ==
    [timestamp  |-> OverallStamp,
     issue      |-> "Stiff or jerky movements",
     severity   |-> "medium",
     suggestion |-> [text |-> "Try to move more fluidly and smoothly", pct |-> 0]]

PositiveItem ==
    [timestamp  |-> OverallStamp,
     issue      |-> "None",
     severity   |-> "none",
     suggestion |-> [text |-> "Great job", pct |-> 0]]

\* if is_too_fast: ... elif is_too_slow: ...
TempoItems(movement) ==
    IF movement.is_too_fast THEN << TooFastItem(movement) >>
    ELSE IF movement.is_too_slow THEN << TooSlowItem(movement) >>
    ELSE << >>

StiffItems(movement) == IF movement.is_too_stiff THEN << StiffItem >> ELSE << >>

\* WithPositiveDefault without the test "if not feedback"
WithPositiveAlways(feedback) == Append(feedback, PositiveItem)

\* if not feedback: feedback.append(positive item)
WithPositiveDefault(feedback) ==
    IF Len(feedback) = 0 THEN << PositiveItem >> ELSE feedback

\* GenerateFeedbackPoints with the stiffness test placed before the tempo test
GenerateFeedbackPointsStiffFirst(sims, movement, example_timestamps, align) ==
    LET problem_segments ==
            ProblemSegments(sims.frame_scores, align.path, example_timestamps, 1,
                            << >>, NoSegment)
        segment_items == [k \in 1..Len(problem_segments) |->
                            SegmentItem(problem_segments[k])]
    IN  WithPositiveDefault(segment_items \o StiffItems(movement) \o TempoItems(movement))

GenerateFeedbackPoints(sims, movement, example_timestamps, align) ==
    LET problem_segments ==
            ProblemSegments(sims.frame_scores, align.path, example_timestamps, 1,
                            << >>, NoSegment)
        segment_items == [k \in 1..Len(problem_segments) |->
                            SegmentItem(problem_segments[k])]
    IN  WithPositiveDefault(segment_items \o TempoItems(movement) \o StiffItems(movement))

----------------------------------------------------------------------------
(* _calculate_overall_score and the report of compare_videos               *)

\* CalculateOverallScore with the weights of timing and angle exchanged
CalculateOverallScoreSwapped(sims, movement) ==
      sims.pose_similarity.v * WeightPose
    + sims.timing_similarity * WeightAngle
    + sims.angle_similarity * WeightTiming
    + movement.smoothness_score * WeightSmoothness

\* the weighted sum; the terms are hundredths times hundredths
CalculateOverallScore(sims, movement) ==
      sims.pose_similarity.v * WeightPose
    + sims.timing_similarity * WeightTiming
    + sims.angle_similarity * WeightAngle
    + movement.smoothness_score * WeightSmoothness

\* round(x * 100, 1) of x given in ten-thousandths: tenths of a percent
Percent1(x) == RoundHalfEven(x, 10)

ErrorReport ==
    [keys |-> {"error", "overall_similarity"},
     error |-> "Could not detect poses in one or both videos",
     overall_similarity |-> 0,
     similarity_breakdown |-> [pose_accuracy |-> 0, timing_accuracy |-> 0,
                               movement_smoothness |-> 0, angle_accuracy |-> 0],
     feedback_points |-> << >>]

Report(sims, movement, feedback, overall) ==
    [keys |-> {"overall_similarity", "similarity_breakdown", "feedback_points",
               "alignment", "detailed_metrics"},
     error |-> "",
     overall_similarity |-> Percent1(overall),
     similarity_breakdown |->
        [pose_accuracy       |-> Percent1(sims.pose_similarity.v * One),
         timing_accuracy     |-> Percent1(sims.timing_similarity * One),
         movement_smoothness |-> Percent1(movement.smoothness_score * One),
         angle_accuracy      |-> Percent1(sims.angle_similarity * One)],
     feedback_points |-> feedback]

NoReport ==
    [keys |-> {}, error |-> "", overall_similarity |-> 0,
     similarity_breakdown |-> [pose_accuracy |-> 0, timing_accuracy |-> 0,
                               movement_smoothness |-> 0, angle_accuracy |-> 0],
     feedback_points |-> << >>]

----------------------------------------------------------------------------
(* FeedbackService                                                         *)

TextLine(kind, text, similarity, point) ==
    [kind |-> kind, text |-> text, similarity |-> similarity, point |-> point]

\* the band sentence of the fallback text
BandText(similarity) ==
    IF similarity >= ExcellentBand THEN "Excellent work!"
    ELSE IF similarity >= GoodBand THEN "Good effort!"
    ELSE "Keep practicing!"

\* PointLines without the test on point['issue']
PointLinesUnfiltered(points) ==
    [k \in 1..Len(points) |-> TextLine("point", points[k].issue, 0, points[k])]

\* for point in feedback_points: if point['issue'] != 'None': one line
PointLines(points) ==
    LET kept == SelectSeq(points, LAMBDA point : point.issue # "None")
    IN  [k \in 1..Len(kept) |-> TextLine("point", kept[k].issue, 0, kept[k])]

\* _generate_fallback_feedback
GenerateFallbackFeedback(report) ==
    << TextLine("header", "Overall Performance", report.overall_similarity, PositiveItem),
       TextLine("band", BandText(report.overall_similarity), 0, PositiveItem),
       TextLine("areas", "Areas for Improvement:", 0, PositiveItem) >>
    \o PointLines(report.feedback_points)

\* response.choices[0].message.content: whatever the service wrote
AiText == << TextLine("ai", "generated", 0, PositiveItem) >>

----------------------------------------------------------------------------
(* Inputs                                                                  *)

SeqsUpTo(S, n) == UNION { [1..k -> S] : k \in 1..n }

\* the frames a sequence is made of
FrameSet == { NoneFrame, PoseNoLandmarks, PoseA, PoseB }

\* the feature vectors of the present frames
VectorSet == { EncodePose(f).vec : f \in FrameSet \ { NoneFrame } }

NoSimilarities ==
    [pose_similarity |-> Num(0), timing_similarity |-> 0, angle_similarity |-> 0,
     frame_scores |-> << >>]

\* pose_data['timestamps']: frame_idx / fps, one entry per frame, absent
\* frames included; the model's videos have one frame per second
Timestamps(poses) == [k \in 1..Len(poses) |-> (k - 1) * One]

----------------------------------------------------------------------------
(* _dtw_align called on its own                                            *)

InitDtw ==
    /\ mode = "align"
    /\ pc = "dtw"
    /\ similarity_threshold = SimilarityThreshold
    /\ memo = NoMemo
    /\ example_poses = << >>
    /\ assignment_poses = << >>
    /\ example_clean = << >>
    /\ assignment_clean = << >>
    /\ example_features \in SeqsUpTo(VectorSet, MaxDtwLen)
    /\ assignment_features \in SeqsUpTo(VectorSet, MaxDtwLen)
    /\ dist_matrix = << >>
    /\ dtw_matrix = << >>
    /\ bt = [i |-> 0, j |-> 0, path |-> << >>]
    /\ alignment = NoAlignment
    /\ similarities = NoSimilarities
    /\ movement_analysis = NoMovement
    /\ feedback_points = << >>
    /\ result = NoReport
    /\ done = {}
    /\ exc = "none"
    /\ ai_feedback = << >>

NextDtw == DtwStart \/ BacktrackStep \/ DtwReturn \/ AlignAgain

SpecDtw == InitDtw /\ [][NextDtw]_vars

----------------------------------------------------------------------------
(* Properties of _dtw_align (checked under SpecDtw)                        *)

\* _dtw_align has returned
Aligned == pc = "aligned"

\* a step of a warping path: each index advances by 0 or 1, not both by 0
IsWarpStep(p, q) ==
    /\ q[1] - p[1] \in {0, 1}
    /\ q[2] - p[2] \in {0, 1}
    /\ q # p

\* C1: the path returned on the DTW branch starts at (0,0), ends at
\* (n-1,m-1), advances each index by 0 or 1 per step with at least one
\* advancing, and so pairs every index of both sequences at least once
AlignmentCoverage ==
    Aligned =>
        LET path == alignment.path
            n == Len(example_features)
            m == Len(assignment_features)
        IN  /\ Len(path) >= 1
            /\ path[1] = << 0, 0 >>
            /\ path[Len(path)] = << n - 1, m - 1 >>
            /\ \A k \in 1..(Len(path) - 1) : IsWarpStep(path[k], path[k + 1])
            /\ \A i \in 0..(n - 1) : \E k \in 1..Len(path) : path[k][1] = i
            /\ \A j \in 0..(m - 1) : \E k \in 1..Len(path) : path[k][2] = j

\* C1 witness: sequences of different lengths aligned by a path that
\* repeats an index of each
AlignmentCoverageWitness ==
    /\ Aligned
    /\ Len(example_features) = 3
    /\ Len(assignment_features) = 2
    /\ \E k \in 1..(Len(alignment.path) - 1) :
          alignment.path[k + 1][1] = alignment.path[k][1]
    /\ \E k \in 1..(Len(alignment.path) - 1) :
          alignment.path[k + 1][2] = alignment.path[k][2]

\* every warping path from (0,0) to (i,j), steps (1,0), (0,1), (1,1)
RECURSIVE WarpingPaths(_, _)
WarpingPaths(i, j) ==
    IF i = 0 /\ j = 0 THEN { << << 0, 0 >> >> }
    ELSE LET before ==
                 (IF i > 0 THEN WarpingPaths(i - 1, j) ELSE {})
                 \cup (IF j > 0 THEN WarpingPaths(i, j - 1) ELSE {})
                 \cup (IF i > 0 /\ j > 0 THEN WarpingPaths(i - 1, j - 1) ELSE {})
         IN  { Append(p, << i, j >>) : p \in before }

\* the warping paths of every pair of lengths the model aligns
WarpingPathTable ==
    [n \in 1..MaxDtwLen |-> [m \in 1..MaxDtwLen |-> WarpingPaths(n - 1, m - 1)]]

\* the sum of D[i][j] along a path
PathCost(dist, path) ==
    SumSeq([k \in 1..Len(path) |-> dist[path[k][1] + 1][path[k][2] + 1]])

\* C2: 'distance' is the least sum of pairwise distances over all warping
\* paths from (0,0) to (n-1,m-1), and 'path' is a warping path of that cost
DtwOptimal ==
    Aligned =>
        LET paths == WarpingPathTable[Len(example_features)][Len(assignment_features)]
        IN  /\ \A p \in paths : alignment.distance <= PathCost(dist_matrix, p)
            /\ alignment.path \in paths
            /\ PathCost(dist_matrix, alignment.path) = alignment.distance

\* C2 witness: an alignment of positive cost where the straight paths
\* (all of one index first) cost more than the optimum
DtwOptimalWitness ==
    /\ Aligned
    /\ Len(example_features) = 3
    /\ Len(assignment_features) = 3
    /\ alignment.distance > 0
    /\ \E p \in WarpingPathTable[3][3] :
          PathCost(dist_matrix, p) > alignment.distance

\* the pair that precedes pair q on the path when ties go to the first of
\* up (i-1,j), left (i,j-1), diagonal (i-1,j-1); q is 0-based, the cell is q+1
FirstMinimumBefore(M, q) ==
    LET i == q[1] + 1
        j == q[2] + 1
        up == At(M, i - 1, j)
        left == At(M, i, j - 1)
        diag == At(M, i - 1, j - 1)
    IN  IF up <= left /\ up <= diag THEN << q[1] - 1, q[2] >>
        ELSE IF left <= diag THEN << q[1], q[2] - 1 >>
        ELSE << q[1] - 1, q[2] - 1 >>

\* some cell of the path had two neighbours of equal least cost
TieOnPath(M, path) ==
    \E k \in 2..Len(path) :
        LET i == path[k][1] + 1
            j == path[k][2] + 1
            up == At(M, i - 1, j)
            left == At(M, i, j - 1)
            diag == At(M, i - 1, j - 1)
            least == Min3(up, left, diag)
        IN  Cardinality({ c \in {"up", "left", "diag"} :
                (c = "up" /\ up = least) \/ (c = "left" /\ left = least)
                \/ (c = "diag" /\ diag = least) }) > 1

\* C7: every step of the returned path is the first minimum in the order
\* up, left, diagonal, and a call on the inputs of the first call returns
\* the first call's path and distance, whatever calls came in between
DtwDeterministic ==
    Aligned =>
        /\ \A k \in 1..(Len(alignment.path) - 1) :
              alignment.path[k] = FirstMinimumBefore(dtw_matrix, alignment.path[k + 1])
        /\ (memo.set /\ memo.example = example_features
                     /\ memo.assignment = assignment_features)
              => (alignment.path = memo.path /\ alignment.distance = memo.distance)
        /\ similarity_threshold = SimilarityThreshold

\* C7 witness: a later call on the first call's inputs, which differ from
\* each other, with a tie on the path
DtwDeterministicWitness ==
    /\ Aligned
    /\ memo.set
    /\ memo.example = example_features
    /\ memo.assignment = assignment_features
    /\ example_features # assignment_features
    /\ TieOnPath(dtw_matrix, alignment.path)

----------------------------------------------------------------------------
(* _dtw_align called on its own, when the DTW computation may fail         *)

NextAlign == DtwStart \/ BacktrackStep \/ DtwReturn \/ DtwFails

SpecAlign == InitDtw /\ [][NextAlign]_vars

\* _dtw_align has returned from its except branch
FellBack == pc = "aligned" /\ "fallback" \in done

\* C17 as stated: the fallback pairs each index i of the longer sequence
\* with round(i * s / l) in the other (l the longer length, s the other),
\* with distance 0 and alignment quality 0.5
FallbackLinearRound ==
    FellBack =>
        LET n == Len(example_features)
            m == Len(assignment_features)
            pairs == { alignment.path[k] : k \in 1..Len(alignment.path) }
        IN  /\ alignment.distance = 0
            /\ alignment.alignment_quality = 50
            /\ pairs = IF n >= m
                       THEN { << i, RoundHalfEven(i * m, n) >> : i \in 0..(n - 1) }
                       ELSE { << RoundHalfEven(j * n, m), j >> : j \in 0..(m - 1) }

\* C17 as amended: the fallback pairs each index i of the example
\* sequence, in order, with floor(i * m / n) in the assignment sequence,
\* with distance 0, normalised distance 0.5 and alignment quality 0.5
FallbackLinearFloor ==
    FellBack =>
        LET n == Len(example_features)
            m == Len(assignment_features)
        IN  /\ alignment.distance = 0
            /\ alignment.normalized_distance = 50
            /\ alignment.alignment_quality = 50
            /\ Len(alignment.path) = n
            /\ \A i \in 0..(n - 1) :
                  /\ alignment.path[i + 1][1] = i
                  /\ alignment.path[i + 1][2] * n <= i * m
                  /\ i * m < (alignment.path[i + 1][2] + 1) * n

\* C17 witness: the fallback for three example and two assignment frames,
\* where rounding and truncating differ (1 * 2 / 3)
FallbackLinearFloorWitness ==
    /\ FellBack
    /\ Len(example_features) = 3
    /\ Len(assignment_features) = 2
    /\ alignment.path[2] = << 1, 0 >>

\* C18: for non-empty inputs _dtw_align propagates no exception: a failure
\* of the DTW computation ends in the except branch, whose alignment is
\* usable: every pair (i,j) of its path has 0 <= i < n and 0 <= j < m, and
\* the path is non-decreasing in both indices
AlignerNeverThrows ==
    (mode = "align" /\ Len(example_features) > 0 /\ Len(assignment_features) > 0) =>
        /\ exc = "none"
        /\ pc \in {"dtw", "backtrack", "aligned"}
        /\ FellBack =>
              LET path == alignment.path
              IN  /\ \A k \in 1..Len(path) :
                        /\ 0 <= path[k][1] /\ path[k][1] < Len(example_features)
                        /\ 0 <= path[k][2] /\ path[k][2] < Len(assignment_features)
                  /\ \A k \in 1..(Len(path) - 1) :
                        /\ path[k][1] <= path[k + 1][1]
                        /\ path[k][2] <= path[k + 1][2]

\* C18 witness: the computation failed during the backtrack of three
\* example frames against one assignment frame, and the fallback returned
AlignerNeverThrowsWitness ==
    /\ FellBack
    /\ Len(example_features) = 3
    /\ Len(assignment_features) = 1
    /\ Len(bt.path) > 0
    /\ Len(alignment.path) = 3

----------------------------------------------------------------------------
(* _poses_to_features called on its own                                    *)

\* keys outside the landmark vocabulary and 'angles'
ExtraKeys == { "frame_id", "zone" }

\* the coordinates the model gives each landmark
LandmarkAt ==
    [k \in LandmarkNames |->
        CASE k = "left_ankle"  -> Landmark(1, 2)
          [] k = "left_wrist"  -> Landmark(3, 4)
          [] k = "nose"        -> Landmark(5, 6)
          [] k = "right_ankle" -> Landmark(7, 8)
          [] k = "right_wrist" -> Landmark(9, 1)]

\* the values an extra key may carry: a mapping without x, or one with x and y
ExtraValues == { OtherMapping, Landmark(2, 3) }

\* every pose over a non-empty set of keys
EncodeFrameSet ==
    { Present([k \in K |-> IF k = "angles" THEN Angles
                           ELSE IF k \in ExtraKeys THEN e[k]
                           ELSE LandmarkAt[k]]) :
        K \in (SUBSET (LandmarkNames \cup ExtraKeys \cup {"angles"})) \ {{}},
        e \in [ExtraKeys -> ExtraValues] }

\* the poses _extract_keypoints builds under the different focus-area
\* filters: 'angles' and any subset of the landmarks
FocusFrameSet ==
    { Present([k \in K \cup {"angles"} |->
                 IF k = "angles" THEN Angles ELSE LandmarkAt[k]]) :
        K \in SUBSET LandmarkNames }

\* _poses_to_features(poses, focus_areas): the loop, then np.array(features)
EncodeCall ==
    /\ mode = "encode" /\ pc = "encode_call"
    /\ LET r == PosesToFeatures(example_poses)
       IN  IF r.raised
           THEN /\ exc' = "KeyError"
                /\ pc' = "raised"
                /\ example_features' = example_features
           ELSE /\ exc' = exc
                /\ pc' = "encoded"
                /\ example_features' = r.features
    /\ done' = done \cup {"encoding"}
    /\ UNCHANGED << mode, similarity_threshold, memo, example_poses,
                    assignment_poses, example_clean, assignment_clean,
                    assignment_features, dist_matrix, dtw_matrix, bt, alignment,
                    similarities, movement_analysis, feedback_points, result,
                    ai_feedback >>

InitEncode ==
    /\ mode = "encode"
    /\ pc = "encode_call"
    /\ similarity_threshold = SimilarityThreshold
    /\ memo = NoMemo
    /\ example_poses \in { << f >> : f \in EncodeFrameSet }
                         \cup { << f, g >> : f \in FocusFrameSet, g \in FocusFrameSet }
    /\ assignment_poses = << >>
    /\ example_clean = << >>
    /\ assignment_clean = << >>
    /\ example_features = << >>
    /\ assignment_features = << >>
    /\ dist_matrix = << >>
    /\ dtw_matrix = << >>
    /\ bt = [i |-> 0, j |-> 0, path |-> << >>]
    /\ alignment = NoAlignment
    /\ similarities = NoSimilarities
    /\ movement_analysis = NoMovement
    /\ feedback_points = << >>
    /\ result = NoReport
    /\ done = {}
    /\ exc = "none"
    /\ ai_feedback = << >>

NextEncode == EncodeCall

SpecEncode == InitEncode /\ [][NextEncode]_vars

\* the pose without the keys outside the landmark vocabulary
WithoutExtraKeys(frame) ==
    [frame EXCEPT !.pose =
        [k \in (DOMAIN frame.pose) \ ExtraKeys |-> frame.pose[k]]]

\* C10: the encoder ignores keys outside the landmark vocabulary: the
\* vector of a pose with extra keys is the vector of the pose without
\* them, and encoding raises nothing
ExtraKeysIgnored ==
    (mode = "encode" /\ pc # "encode_call") =>
        /\ exc = "none"
        /\ pc = "encoded"
        /\ example_features =
              PosesToFeatures([k \in 1..Len(example_poses) |->
                                 WithoutExtraKeys(example_poses[k])]).features

\* the components (1-based, x first) at which a vector holds a landmark's
\* x and y; LandmarkAt gives every landmark its own coordinates
PositionsOf(vec, landmark) ==
    { p \in 1..(Len(vec) - 1) : vec[p] = landmark.x /\ vec[p + 1] = landmark.y }

\* C11: the vectors of poses with different landmark subsets are comparable
\* component by component: every vector has the fixed length 66, and a
\* landmark present in two poses has its x and y at the same components of
\* both vectors
ComponentwiseComparable ==
    (mode = "encode" /\ pc = "encoded") =>
        /\ \A k \in 1..Len(example_features) : Len(example_features[k]) = 66
        /\ \A k1, k2 \in 1..Len(example_poses) :
              \A name \in LandmarkNames \cap DOMAIN example_poses[k1].pose
                                        \cap DOMAIN example_poses[k2].pose :
                  PositionsOf(example_features[k1], example_poses[k1].pose[name])
                  = PositionsOf(example_features[k2], example_poses[k2].pose[name])

----------------------------------------------------------------------------
(* _generate_feedback_points called on its own                             *)

\* the values a frame score takes: max(0, cos_sim), in hundredths
ScoreSet == { 0, 59, 60, 100 }

\* the flags _analyze_movement_quality can return; velocities are never
\* negative, so is_too_fast and is_too_slow are never both set
MovementSet ==
    { [NoMovement EXCEPT !.is_too_fast = fl.fast, !.is_too_slow = fl.slow,
                         !.is_too_stiff = fl.stiff,
                         !.velocity_similarity = One \div 2] :
        fl \in { x \in [fast : BOOLEAN, slow : BOOLEAN, stiff : BOOLEAN] :
                    ~(x.fast /\ x.slow) } }

\* the paths _dtw_align returns for sequences of up to MaxFeedbackLen frames
PathSet ==
    UNION { WarpingPaths(n - 1, m - 1) : n \in 1..MaxFeedbackLen, m \in 1..MaxFeedbackLen }

\* _generate_feedback_points(similarities, movement_analysis,
\*                           example_timestamps, assignment_timestamps, alignment)
FeedbackCall ==
    /\ mode = "feedback" /\ pc = "feedback_call"
    /\ feedback_points' = GenerateFeedbackPoints(similarities, movement_analysis,
                                                 Timestamps(example_poses), alignment)
    /\ done' = done \cup {"feedback"}
    /\ pc' = "generated"
    /\ UNCHANGED << mode, similarity_threshold, memo, example_poses,
                    assignment_poses, example_clean, assignment_clean,
                    example_features, assignment_features, dist_matrix,
                    dtw_matrix, bt, alignment, similarities, movement_analysis,
                    result, exc, ai_feedback >>

InitFeedback ==
    /\ mode = "feedback"
    /\ pc = "feedback_call"
    /\ similarity_threshold = SimilarityThreshold
    /\ memo = NoMemo
    /\ \E path \in PathSet :
          /\ alignment = [NoAlignment EXCEPT !.path = path]
          /\ example_poses = [k \in 1..(path[Len(path)][1] + 1) |-> PoseA]
          /\ \E scores \in [1..Len(path) -> ScoreSet] :
                similarities = [NoSimilarities EXCEPT !.frame_scores = scores]
    /\ movement_analysis \in MovementSet
    /\ assignment_poses = << >>
    /\ example_clean = << >>
    /\ assignment_clean = << >>
    /\ example_features = << >>
    /\ assignment_features = << >>
    /\ dist_matrix = << >>
    /\ dtw_matrix = << >>
    /\ bt = [i |-> 0, j |-> 0, path |-> << >>]
    /\ feedback_points = << >>
    /\ result = NoReport
    /\ done = {}
    /\ exc = "none"
    /\ ai_feedback = << >>

NextFeedback == FeedbackCall

SpecFeedback == InitFeedback /\ [][NextFeedback]_vars

\* _generate_feedback_points, called on its own, has returned
Generated == mode = "feedback" /\ pc = "generated"

\* the 'Pose mismatch' items of a list, in list order
Mismatches(points) == SelectSeq(points, LAMBDA point : point.issue = "Pose mismatch")

\* positions s..e form a maximal run of scores below 0.6
IsMaximalRun(scores, s, e) ==
    /\ s <= e
    /\ \A k \in s..e : scores[k] < 60
    /\ (s = 1 \/ scores[s - 1] >= 60)
    /\ (e = Len(scores) \/ scores[e + 1] >= 60)

\* the maximal runs, as pairs (s, e), in the order of their positions
RECURSIVE RunsFrom(_, _)
RunsFrom(scores, s) ==
    IF s > Len(scores) THEN << >>
    ELSE LET ends == { e \in s..Len(scores) : IsMaximalRun(scores, s, e) }
         IN  IF ends = {} THEN RunsFrom(scores, s + 1)
             ELSE LET e == CHOOSE x \in ends : TRUE
                  IN  << << s, e >> >> \o RunsFrom(scores, e + 1)

\* C12: the list holds exactly one 'Pose mismatch' item per maximal run of
\* scores strictly below 0.6, in the order of the runs: a score of 0.6 or
\* more closes a run, a run open at the end is emitted, each item spans its
\* run's first and last pair and averages exactly the scores of its run,
\* and there is no such item when every score is 0.6 or more
OneItemPerRun ==
    Generated =>
        LET scores == similarities.frame_scores
            runs == RunsFrom(scores, 1)
            items == Mismatches(feedback_points)
            ts == Timestamps(example_poses)
        IN  /\ Len(items) = Len(runs)
            /\ \A k \in 1..Len(runs) :
                  LET s == runs[k][1]
                      e == runs[k][2]
                  IN  /\ items[k].timestamp.start
                           = FormatTime(ts[alignment.path[s][1] + 1])
                      /\ items[k].timestamp.end
                           = FormatTime(ts[alignment.path[e][1] + 1])
                      /\ items[k].suggestion.pct
                           = SumSeq(SubSeq(scores, s, e)) \div (e - s + 1)
            /\ (\A k \in 1..Len(scores) : scores[k] >= 60) => Len(items) = 0

\* C12 witness: two runs separated by a score of exactly 0.6, the second
\* still open at the end of the series
OneItemPerRunWitness ==
    /\ Generated
    /\ similarities.frame_scores = << 59, 60, 0 >>
    /\ Len(Mismatches(feedback_points)) = 2

\* the place of an item's kind in the output order
KindRank(point) ==
    CASE point.issue = "Pose mismatch" -> 1
      [] point.issue \in {"Movement speed too fast", "Movement speed too slow"} -> 2
      [] point.issue = "Stiff or jerky movements" -> 3
      [] OTHER -> 4

\* a formatted time MM:SS in seconds
StampSeconds(stamp) == stamp[1] * 60 + stamp[2]

\* C14: in every returned list the 'Pose mismatch' items come first, in
\* chronological order of their start, then at most one tempo item, then
\* at most one stiffness item; the positive item appears only alone
FeedbackOrdering ==
    Generated =>
        LET n == Len(feedback_points)
            ofRank(r) == { k \in 1..n : KindRank(feedback_points[k]) = r }
        IN  /\ \A k \in 1..(n - 1) :
                  KindRank(feedback_points[k]) <= KindRank(feedback_points[k + 1])
            /\ \A k \in 1..(n - 1) :
                  KindRank(feedback_points[k + 1]) = 1 =>
                      StampSeconds(feedback_points[k].timestamp.start)
                      <= StampSeconds(feedback_points[k + 1].timestamp.start)
            /\ Cardinality(ofRank(2)) <= 1
            /\ Cardinality(ofRank(3)) <= 1
            /\ (ofRank(4) # {}) => n = 1

\* C14 witness: two problem segments at different times, a tempo item and
\* a stiffness item in one list
FeedbackOrderingWitness ==
    /\ Generated
    /\ Len(feedback_points) = 4
    /\ Len(Mismatches(feedback_points)) = 2
    /\ feedback_points[1].timestamp.start # feedback_points[2].timestamp.start
    /\ movement_analysis.is_too_slow
    /\ movement_analysis.is_too_stiff

----------------------------------------------------------------------------
(* _calculate_similarities called on its own                               *)

\* a pose with two landmarks in the far corner (1.0, 1.0) and one in the
\* centre: further than 2 from the zero vector
PoseFar == Present([k \in {"angles", "left_ankle", "left_wrist", "nose"} |->
                      CASE k = "angles" -> Angles
                        [] k = "nose"   -> Landmark(5, 5)
                        [] OTHER        -> Landmark(10, 10)])

\* the feature vectors given to the scorer
ScoreVectorSet == { EncodePose(f).vec : f \in { PoseNoLandmarks, PoseA, PoseFar } }

\* the alignments _dtw_align returns for two feature sequences: a warping
\* path with some quality, or no pair and quality 0 when a sequence is empty
AlignmentSet(a, b) ==
    IF Len(a) = 0 \/ Len(b) = 0 THEN { NoAlignment }
    ELSE { [NoAlignment EXCEPT !.path = p, !.alignment_quality = q] :
             p \in WarpingPaths(Len(a) - 1, Len(b) - 1),
             q \in { 0, One \div 2, One } }

\* _calculate_similarities(example_features, assignment_features, alignment, ...)
SimilaritiesCall ==
    /\ mode = "score" /\ pc = "score_call"
    /\ similarities' = CalculateSimilarities(example_features, assignment_features,
                                             alignment)
    /\ done' = done \cup {"scoring"}
    /\ pc' = "scored"
    /\ UNCHANGED << mode, similarity_threshold, memo, example_poses,
                    assignment_poses, example_clean, assignment_clean,
                    example_features, assignment_features, dist_matrix,
                    dtw_matrix, bt, alignment, movement_analysis,
                    feedback_points, result, exc, ai_feedback >>

InitSimilarities ==
    /\ mode = "score"
    /\ pc = "score_call"
    /\ similarity_threshold = SimilarityThreshold
    /\ memo = NoMemo
    /\ example_features \in SeqsUpTo(ScoreVectorSet, MaxScoreLen) \cup { << >> }
    /\ assignment_features \in SeqsUpTo(ScoreVectorSet, MaxScoreLen) \cup { << >> }
    /\ alignment \in AlignmentSet(example_features, assignment_features)
    /\ example_poses = << >>
    /\ assignment_poses = << >>
    /\ example_clean = << >>
    /\ assignment_clean = << >>
    /\ dist_matrix = << >>
    /\ dtw_matrix = << >>
    /\ bt = [i |-> 0, j |-> 0, path |-> << >>]
    /\ similarities = NoSimilarities
    /\ movement_analysis = NoMovement
    /\ feedback_points = << >>
    /\ result = NoReport
    /\ done = {}
    /\ exc = "none"
    /\ ai_feedback = << >>

NextSimilarities == SimilaritiesCall

SpecSimilarities == InitSimilarities /\ [][NextSimilarities]_vars

\* _calculate_similarities, called on its own, has returned
Scored == mode = "score" /\ pc = "scored"

\* the euclidean distances of the pairs of the path, in path order
PairDistances ==
    [k \in 1..Len(alignment.path) |->
        Euclidean(example_features[alignment.path[k][1] + 1],
                  assignment_features[alignment.path[k][2] + 1])]

\* the mean over the path of max(0, 1 - distance / 2)
MeanOfClamped ==
    SumSeq([k \in 1..Len(PairDistances) |->
               IF PairDistances[k] >= 200 THEN 0 ELSE 100 - PairDistances[k] \div 2])
    \div Len(PairDistances)

\* C15 as stated: angle_similarity is the mean over the path of the
\* per-pair value max(0, 1 - euclidean / 2), the clamp being applied to
\* each pair before averaging (up to the rounding of two divisions)
AngleClampPerPair ==
    (Scored /\ Len(alignment.path) > 0) =>
        Abs(similarities.angle_similarity - MeanOfClamped) <= 2

\* C15 as amended: angle_similarity is max(0, 1 - d / 2) where d is the
\* mean over the path of the euclidean distances: the clamp is applied
\* once, after averaging
AngleClampAfterMean ==
    (Scored /\ Len(alignment.path) > 0) =>
        LET d == SumSeq(PairDistances) \div Len(PairDistances)
        IN  similarities.angle_similarity = (IF d >= 200 THEN 0 ELSE 100 - d \div 2)

\* C15 witness: a path with a pair further apart than 2 and a pair closer
\* than 2, where clamping per pair would give another value
AngleClampAfterMeanWitness ==
    /\ Scored
    /\ \E k \in 1..Len(alignment.path) : PairDistances[k] > 200
    /\ \E k \in 1..Len(alignment.path) : PairDistances[k] < 200
    /\ Abs(similarities.angle_similarity - MeanOfClamped) > 2

\* C16: given an alignment whose path has no pairs, the scorer raises
\* nothing and returns 0 for pose_similarity, timing_similarity and
\* angle_similarity
EmptyPathScoresZero ==
    (Scored /\ Len(alignment.path) = 0) =>
        /\ exc = "none"
        /\ similarities.pose_similarity = Num(0)
        /\ similarities.timing_similarity = 0
        /\ similarities.angle_similarity = 0

----------------------------------------------------------------------------
(* compare_videos, followed by generate_enhanced_feedback as in /compare   *)

\* [p for p in poses if p is not None]
FilterNone(poses) == SelectSeq(poses, LAMBDA p : ~p.absent)

\* EitherEmpty with "and" in place of "or"
BothEmpty(example, assignment) == Len(example) = 0 /\ Len(assignment) = 0

\* if not example_poses_clean or not assignment_poses_clean
EitherEmpty(example, assignment) == Len(example) = 0 \/ Len(assignment) = 0

\* lines 24-35: filter, and the early return
CompareFilter ==
    /\ mode = "compare" /\ pc = "start"
    /\ example_clean' = FilterNone(example_poses)
    /\ assignment_clean' = FilterNone(assignment_poses)
    /\ IF EitherEmpty(FilterNone(example_poses), FilterNone(assignment_poses))
       THEN /\ result' = ErrorReport
            /\ pc' = "returned"
       ELSE /\ result' = result
            /\ pc' = "encode"
    /\ UNCHANGED << mode, similarity_threshold, memo, example_poses,
                    assignment_poses, example_features, assignment_features,
                    dist_matrix, dtw_matrix, bt, alignment, similarities,
                    movement_analysis, feedback_points, done, exc, ai_feedback >>

\* lines 38-39
CompareEncode ==
    /\ mode = "compare" /\ pc = "encode"
    /\ LET ex == PosesToFeatures(example_clean)
           as == PosesToFeatures(assignment_clean)
       IN  IF ex.raised \/ as.raised
           THEN /\ exc' = "KeyError"
                /\ pc' = "raised"
                /\ UNCHANGED << example_features, assignment_features >>
           ELSE /\ example_features' = ex.features
                /\ assignment_features' = as.features
                /\ pc' = "dtw"
                /\ exc' = exc
    /\ done' = done \cup {"encoding"}
    /\ UNCHANGED << mode, similarity_threshold, memo, example_poses,
                    assignment_poses, example_clean, assignment_clean,
                    dist_matrix, dtw_matrix, bt, alignment, similarities,
                    movement_analysis, feedback_points, result, ai_feedback >>

\* lines 45-51
CompareSimilarities ==
    /\ mode = "compare" /\ pc = "similarities"
    /\ similarities' = CalculateSimilarities(example_features, assignment_features,
                                             alignment)
    /\ done' = done \cup {"scoring"}
    /\ pc' = "movement"
    /\ UNCHANGED << mode, similarity_threshold, memo, example_poses,
                    assignment_poses, example_clean, assignment_clean,
                    example_features, assignment_features, dist_matrix,
                    dtw_matrix, bt, alignment, movement_analysis,
                    feedback_points, result, exc, ai_feedback >>

\* lines 54-58
CompareMovement ==
    /\ mode = "compare" /\ pc = "movement"
    /\ movement_analysis' = AnalyzeMovementQuality(example_clean, assignment_clean)
    /\ done' = done \cup {"movement"}
    /\ pc' = "feedback"
    /\ UNCHANGED << mode, similarity_threshold, memo, example_poses,
                    assignment_poses, example_clean, assignment_clean,
                    example_features, assignment_features, dist_matrix,
                    dtw_matrix, bt, alignment, similarities, feedback_points,
                    result, exc, ai_feedback >>

\* lines 61-67
CompareFeedback ==
    /\ mode = "compare" /\ pc = "feedback"
    /\ feedback_points' = GenerateFeedbackPoints(similarities, movement_analysis,
                                                 Timestamps(example_poses), alignment)
    /\ done' = done \cup {"feedback"}
    /\ pc' = "score"
    /\ UNCHANGED << mode, similarity_threshold, memo, example_poses,
                    assignment_poses, example_clean, assignment_clean,
                    example_features, assignment_features, dist_matrix,
                    dtw_matrix, bt, alignment, similarities, movement_analysis,
                    result, exc, ai_feedback >>

\* lines 70-86
CompareReturn ==
    /\ mode = "compare" /\ pc = "score"
    /\ result' = Report(similarities, movement_analysis, feedback_points,
                        CalculateOverallScore(similarities, movement_analysis))
    /\ pc' = "returned"
    /\ UNCHANGED << mode, similarity_threshold, memo, example_poses,
                    assignment_poses, example_clean, assignment_clean,
                    example_features, assignment_features, dist_matrix,
                    dtw_matrix, bt, alignment, similarities, movement_analysis,
                    feedback_points, done, exc, ai_feedback >>

\* generate_enhanced_feedback, lines 25-49: the report's entries are read
\* and the prompt is built, outside the try
FeedbackPrompt ==
    /\ mode = "compare" /\ pc = "returned"
    /\ IF {"overall_similarity", "similarity_breakdown", "feedback_points"}
            \subseteq result.keys
       THEN pc' = "api" /\ exc' = exc
       ELSE pc' = "raised" /\ exc' = "KeyError"
    /\ UNCHANGED << mode, similarity_threshold, memo, example_poses,
                    assignment_poses, example_clean, assignment_clean,
                    example_features, assignment_features, dist_matrix,
                    dtw_matrix, bt, alignment, similarities, movement_analysis,
                    feedback_points, result, done, ai_feedback >>

\* lines 52-65: the text-generation call returns
ApiReturns ==
    /\ mode = "compare" /\ pc = "api"
    /\ ai_feedback' = AiText
    /\ pc' = "responded"
    /\ UNCHANGED << mode, similarity_threshold, memo, example_poses,
                    assignment_poses, example_clean, assignment_clean,
                    example_features, assignment_features, dist_matrix,
                    dtw_matrix, bt, alignment, similarities, movement_analysis,
                    feedback_points, result, done, exc >>

\* lines 67-69: the text-generation call raises
ApiRaises ==
    /\ mode = "compare" /\ pc = "api"
    /\ ai_feedback' = GenerateFallbackFeedback(result)
    /\ pc' = "fallback"
    /\ UNCHANGED << mode, similarity_threshold, memo, example_poses,
                    assignment_poses, example_clean, assignment_clean,
                    example_features, assignment_features, dist_matrix,
                    dtw_matrix, bt, alignment, similarities, movement_analysis,
                    feedback_points, result, done, exc >>

\* /compare, lines 195-212: the result is assembled, saved and sent as the
\* JSON response
CompareRespond ==
    /\ mode = "compare" /\ pc \in {"responded", "fallback"}
    /\ pc' = "http_200"
    /\ UNCHANGED << mode, similarity_threshold, memo, example_poses,
                    assignment_poses, example_clean, assignment_clean,
                    example_features, assignment_features, dist_matrix,
                    dtw_matrix, bt, alignment, similarities, movement_analysis,
                    feedback_points, result, done, exc, ai_feedback >>

\* /compare, lines 214-218: an exception raised by the services is turned
\* into HTTPException(status_code=500)
CompareFault ==
    /\ mode = "compare" /\ pc = "raised"
    /\ pc' = "http_500"
    /\ UNCHANGED << mode, similarity_threshold, memo, example_poses,
                    assignment_poses, example_clean, assignment_clean,
                    example_features, assignment_features, dist_matrix,
                    dtw_matrix, bt, alignment, similarities, movement_analysis,
                    feedback_points, result, done, exc, ai_feedback >>

Init ==
    /\ mode = "compare"
    /\ pc = "start"
    /\ similarity_threshold = SimilarityThreshold
    /\ memo = NoMemo
    /\ example_poses \in SeqsUpTo(FrameSet, MaxLenA)
    /\ assignment_poses \in SeqsUpTo(FrameSet, MaxLenB)
    /\ example_clean = << >>
    /\ assignment_clean = << >>
    /\ example_features = << >>
    /\ assignment_features = << >>
    /\ dist_matrix = << >>
    /\ dtw_matrix = << >>
    /\ bt = [i |-> 0, j |-> 0, path |-> << >>]
    /\ alignment = NoAlignment
    /\ similarities = NoSimilarities
    /\ movement_analysis = NoMovement
    /\ feedback_points = << >>
    /\ result = NoReport
    /\ done = {}
    /\ exc = "none"
    /\ ai_feedback = << >>

Next ==
    \/ CompareFilter
    \/ CompareEncode
    \/ DtwStart
    \/ BacktrackStep
    \/ DtwReturn
    \/ CompareSimilarities
    \/ CompareMovement
    \/ CompareFeedback
    \/ CompareReturn
    \/ FeedbackPrompt
    \/ ApiReturns
    \/ ApiRaises
    \/ CompareRespond
    \/ CompareFault

Spec == Init /\ [][Next]_vars

----------------------------------------------------------------------------
(* Properties of compare_videos and the fallback text (checked under Spec) *)

\* compare_videos has returned a report without 'error'
Compared == mode = "compare" /\ pc = "returned" /\ result.error = ""

\* compare_videos has returned at all
Returned == mode = "compare" /\ pc = "returned"

\* C3: comparing a sequence with an identical copy of itself gives
\* pose_similarity 1.0, timing_similarity 1.0 (distance 0) and
\* overall_similarity 100.0
SelfSimilarity ==
    (Compared /\ example_poses = assignment_poses) =>
        /\ similarities.pose_similarity = Num(One)
        /\ similarities.timing_similarity = One
        /\ alignment.distance = 0
        /\ result.overall_similarity = 10 * One

InUnit(x) == 0 <= x /\ x <= One

\* C4: every similarity, smoothness and velocity-similarity value of a
\* report lies in [0,1] and overall_similarity in [0,100]
BoundedOutputs ==
    Compared =>
        /\ ~similarities.pose_similarity.nan
        /\ InUnit(similarities.pose_similarity.v)
        /\ InUnit(similarities.timing_similarity)
        /\ InUnit(similarities.angle_similarity)
        /\ InUnit(movement_analysis.example_smoothness)
        /\ InUnit(movement_analysis.assignment_smoothness)
        /\ InUnit(movement_analysis.smoothness_score)
        /\ InUnit(movement_analysis.velocity_similarity)
        /\ 0 <= result.overall_similarity
        /\ result.overall_similarity <= 10 * One

\* C4 witness: a report whose values lie strictly inside the range, from
\* an assignment long enough to have a jerk
BoundedOutputsWitness ==
    /\ Compared
    /\ Len(assignment_clean) = 4
    /\ similarities.pose_similarity.v \in 1..(One - 1)
    /\ similarities.timing_similarity \in 1..(One - 1)
    /\ similarities.angle_similarity \in 1..(One - 1)
    /\ movement_analysis.velocity_similarity \in 1..(One - 1)
    /\ movement_analysis.assignment_smoothness = 0

\* a sequence has no present frame
NoPresentFrame(poses) == \A k \in 1..Len(poses) : poses[k].absent

\* C5: when either sequence has no present frame, compare_videos returns
\* a non-empty 'error' with overall_similarity 0, raises nothing, and
\* performs no encoding, alignment, scoring or feedback synthesis
EmptyInputHandled ==
    (mode = "compare" /\ pc # "start"
        /\ (NoPresentFrame(example_poses) \/ NoPresentFrame(assignment_poses))) =>
        /\ done = {}
        /\ feedback_points = << >>
        /\ result.error # ""
        /\ result.overall_similarity = 0
        /\ result.keys = {"error", "overall_similarity"}
        /\ Returned => exc = "none"

\* C5 witness: compare_videos has returned for an example with a present
\* frame and an assignment of absent frames only
EmptyInputHandledWitness ==
    /\ Returned
    /\ ~NoPresentFrame(example_poses)
    /\ NoPresentFrame(assignment_poses)
    /\ Len(assignment_poses) = 2

\* _generate_feedback_points has returned
FeedbackGenerated == mode = "compare" /\ "feedback" \in done

\* C6: the feedback list is never empty; it holds an item with issue
\* "None" exactly when no problem segment, no tempo flag and no stiffness
\* flag fired, and then that item (severity "none") is the whole list
FeedbackFallback ==
    FeedbackGenerated =>
        LET fired ==
                \/ \E k \in 1..Len(similarities.frame_scores) :
                      similarities.frame_scores[k] < ProblemThreshold
                \/ movement_analysis.is_too_fast
                \/ movement_analysis.is_too_slow
                \/ movement_analysis.is_too_stiff
            positive == { k \in 1..Len(feedback_points) :
                            feedback_points[k].issue = "None" }
        IN  /\ Len(feedback_points) >= 1
            /\ (positive # {}) <=> ~fired
            /\ (positive # {}) =>
                  /\ Len(feedback_points) = 1
                  /\ feedback_points[1].severity = "none"

\* C6 witness: nothing fired for two different sequences, and the list is
\* the positive item alone
FeedbackFallbackWitness ==
    /\ FeedbackGenerated
    /\ Len(feedback_points) = 1
    /\ feedback_points[1].issue = "None"
    /\ example_poses # assignment_poses
    /\ Len(assignment_clean) = 4

\* the position (1-based) in the original sequence of the k-th present frame
\* (k is 0-based, an index into the filtered sequence)
RECURSIVE OriginalPosition(_, _, _)
OriginalPosition(poses, k, from) ==
    IF ~poses[from].absent
    THEN IF k = 0 THEN from ELSE OriginalPosition(poses, k - 1, from + 1)
    ELSE OriginalPosition(poses, k, from + 1)

\* C13: in a comparison run through compare_videos, each problem
\* segment's start and end are the reference timestamps of the original
\* video frames its first and last aligned pairs refer to, also when absent
\* frames were filtered out of the reference sequence
SegmentTimestamps ==
    FeedbackGenerated =>
        LET runs == RunsFrom(similarities.frame_scores, 1)
            items == Mismatches(feedback_points)
            ts == Timestamps(example_poses)
        IN  /\ Len(items) = Len(runs)
            /\ \A k \in 1..Len(runs) :
                  LET first == alignment.path[runs[k][1]][1]
                      last == alignment.path[runs[k][2]][1]
                  IN  /\ items[k].timestamp.start
                           = FormatTime(ts[OriginalPosition(example_poses, first, 1)])
                      /\ items[k].timestamp.end
                           = FormatTime(ts[OriginalPosition(example_poses, last, 1)])

\* C19: in the /compare flow, once compare_videos has returned the
\* empty-input error report, feedback generation and report assembly raise
\* nothing and the outcome reaches the client as a result, not as a failure
ErrorReportReachesClient ==
    (mode = "compare" /\ result.error # "") =>
        /\ exc = "none"
        /\ pc \in {"returned", "api", "responded", "fallback", "http_200"}

\* C20: the backtracking loop terminates: every iteration strictly
\* decreases i + j and keeps both indices non-negative; when the loop ends
\* it has made between max(n,m) and n+m-1 iterations, the returned path
\* has one entry per iteration, and frame_scores one entry per path entry
BacktrackTerminates ==
    [][ /\ (pc = "backtrack" /\ pc' = "backtrack") =>
              /\ bt'.i + bt'.j < bt.i + bt.j
              /\ bt'.i >= 0 /\ bt'.j >= 0
              /\ Len(bt'.path) = Len(bt.path) + 1
        /\ (pc = "backtrack" /\ pc' # "backtrack") =>
              LET n == Len(example_features)
                  m == Len(assignment_features)
              IN  /\ Len(alignment'.path) = Len(bt.path)
                  /\ Len(alignment'.path) >= (IF n > m THEN n ELSE m)
                  /\ Len(alignment'.path) <= n + m - 1
        /\ (pc = "similarities" /\ pc' # "similarities") =>
              Len(similarities'.frame_scores) = Len(alignment.path)
      ]_vars

\* C20 witness: a scored alignment of two sequences of different lengths
\* whose path is longer than the longer sequence
BacktrackTerminatesWitness ==
    /\ mode = "compare" /\ "scoring" \in done
    /\ Len(example_features) = 2
    /\ Len(assignment_features) = 3
    /\ Len(alignment.path) = 4
    /\ Len(similarities.frame_scores) = 4

\* the tempo items of a list, in list order
TempoPoints(points) ==
    SelectSeq(points, LAMBDA point :
        point.issue \in {"Movement speed too fast", "Movement speed too slow"})

\* C21: is_too_fast and is_too_slow are never both true in a result of
\* _analyze_movement_quality, so the if/elif of _generate_feedback_points
\* emits at most one tempo item, and exactly the items that emitting for
\* each flag on its own would give
TempoFlagsExclusive ==
    (mode = "compare" /\ "movement" \in done) =>
        /\ ~(movement_analysis.is_too_fast /\ movement_analysis.is_too_slow)
        /\ FeedbackGenerated =>
              LET tempo == TempoPoints(feedback_points)
              IN  /\ Len(tempo) <= 1
                  /\ movement_analysis.is_too_fast <=>
                        (\E k \in 1..Len(tempo) :
                            tempo[k].issue = "Movement speed too fast")
                  /\ movement_analysis.is_too_slow <=>
                        (\E k \in 1..Len(tempo) :
                            tempo[k].issue = "Movement speed too slow")

\* C21 witness: an assignment slower than a moving example, reported by
\* the elif branch as the single tempo item
TempoFlagsExclusiveWitness ==
    /\ FeedbackGenerated
    /\ movement_analysis.is_too_slow
    /\ SumSeq(movement_analysis.assignment_velocities) > 0
    /\ Len(TempoPoints(feedback_points)) = 1
    /\ TempoPoints(feedback_points)[1].issue = "Movement speed too slow"

\* C8: overall_similarity is 100 x (0.40 pose + 0.25 timing + 0.20 angle
\* + 0.15 smoothness_score) rounded to one decimal, smoothness_score being
\* 1 - |example_smoothness - assignment_smoothness|; the weights sum to 1
OverallScoreFormula ==
    Compared =>
        LET smoothness_score ==
                One - Abs(movement_analysis.example_smoothness
                          - movement_analysis.assignment_smoothness)
            weighted == 40 * similarities.pose_similarity.v
                        + 25 * similarities.timing_similarity
                        + 20 * similarities.angle_similarity
                        + 15 * smoothness_score
        IN  /\ result.overall_similarity = RoundHalfEven(weighted, 10)
            /\ movement_analysis.smoothness_score = smoothness_score
            /\ WeightPose + WeightTiming + WeightAngle + WeightSmoothness = One

\* C8 witness: a report whose four components all differ
OverallScoreFormulaWitness ==
    /\ Compared
    /\ Cardinality({ similarities.pose_similarity.v, similarities.timing_similarity,
                      similarities.angle_similarity,
                      movement_analysis.smoothness_score }) = 4

\* the items of a list whose issue is not "None", in list order
NotNone(points) == SelectSeq(points, LAMBDA point : point.issue # "None")

\* C9: when the text-generation call raises, nothing propagates and the
\* fallback text is returned: the band by overall_similarity (>= 80
\* "Excellent", >= 65 "Good effort", else "Keep practicing"), then one
\* line per feedback item whose issue is not "None", in list order
FallbackText ==
    (mode = "compare" /\ pc = "fallback") =>
        LET kept == NotNone(result.feedback_points)
        IN  /\ exc = "none"
            /\ Len(ai_feedback) = 3 + Len(kept)
            /\ ai_feedback[1].similarity = result.overall_similarity
            /\ ai_feedback[2].text =
                  (IF result.overall_similarity >= 800 THEN "Excellent work!"
                   ELSE IF result.overall_similarity >= 650 THEN "Good effort!"
                   ELSE "Keep practicing!")
            /\ \A k \in 1..Len(kept) :
                  /\ ai_feedback[3 + k].kind = "point"
                  /\ ai_feedback[3 + k].point = kept[k]
            /\ \A k \in 1..3 : ai_feedback[k].kind # "point"

\* C9 witness: the fallback text of a report in the middle band with two
\* feedback items
FallbackTextWitness ==
    /\ mode = "compare" /\ pc = "fallback"
    /\ result.overall_similarity >= 650
    /\ result.overall_similarity < 800
    /\ Len(result.feedback_points) >= 2

====
